---------------------------- MODULE Spec2Model ----------------------------
(***************************************************************************)
(* Hydrogen atom orbital simulator (src/main.cpp): the pre-render pipeline *)
(* of main() as a state machine.  One process, one thread; pc is the       *)
(* position of main().                                                     *)
(*                                                                         *)
(* Floating-point values (densities, radii, colours, vertex coordinates)   *)
(* are not computed: a vertex buffer entry is the symbolic name of the     *)
(* value the code stores there.  Grid centres are exact: with step =       *)
(* 10/(res-1) every centre is the rational  GridNum / StepDen.             *)
(***************************************************************************)
EXTENDS Integers, Sequences, FiniteSets, TLC

(***************************************************************************)
(* Bounds of the model (not program constants).                            *)
(***************************************************************************)
\* quantum numbers typed at the prompt range over -MaxQ..MaxQ and the two
\* extreme values of a 32-bit int
MaxQ == 4
\* frames drawn by the render loop before the window must be closed
MaxFrames == 2
\* the copy loop and the index aggregation loop are followed this many
\* spheres at a time: one step of the model is that many passes of the loop
ChunkSpheres == 121

(***************************************************************************)
(* Program constants.                                                      *)
(***************************************************************************)
sectorCount == 9
stackCount == 9
NUM_VERTICES_PER_SPHERE == 100
NUM_TRIANGLES_PER_SPHERE == 144
\* const int numSpheres = pow(11,3)
numSpheres == 11 ^ 3

\* the range of a 32-bit int
INT_MAX == 2147483647
INT_MIN == (-INT_MAX) - 1

\* default quantum numbers (globals n, l, ml)
DefaultN == 1
DefaultL == 0
DefaultMl == 0

InputValues == ((-MaxQ) .. MaxQ) \cup {INT_MIN, INT_MAX}

(***************************************************************************)
(* Console output: every std::cout << literal is one entry, a tuple of the *)
(* literal's pieces (the axis-scale label is a piece of its own).          *)
(***************************************************************************)
MsgBanner == <<"Hydrogen Atom Orbital Simulator.\n">>
MsgPromptN == <<"Enter desired principal quantum number........ n = ">>
MsgPromptL == <<"Enter desired angular momentum quantum number. l = ">>
MsgPromptMl == <<"Enter desired magnetic quantum number........ ml = ">>
MsgNewline == <<"\n">>
MsgNotAllowed == <<"This combination of quantum numbers is not allowed.\n">>
MsgNotSupported == <<"The quantum numbers entered are not yet supported.\n">>
MsgWindowFailed == <<"Failed to create GLFW window", "\n">>
MsgScale(label) == <<"Scale factor: axes extend to ", label, ".\n">>

VARIABLES
    pc,                     \* position of main()
    n, l, ml,               \* the global quantum numbers
    output,                 \* what was written to std::cout, in order
    glfw,                   \* "off" | "init" | "terminated"
    window,                 \* "none" | "null" | "open" | "destroyed"
    declared,               \* the local buffers of main() that exist
    uploaded,               \* the buffers handed to the renderer (VBO4, EBO4)
    frames,                 \* passes of the render loop so far
    branch,                 \* the branch of the dispatch chain taken, 0: none
    i,                      \* the counter of the outermost loop main() is in
    allSpheres_VertexVec,   \* one entry per generated sphere
    vertexArrLen,           \* number of slots of allSpheres_VertexArr
    i_arr,                  \* the copy loop's write cursor
    vertexWrites,           \* the runs of slots <<lo, hi>> (lo <= slot < hi) of
                            \* allSpheres_VertexArr written so far, one per
                            \* sphere copied
    k1, k2,                 \* index template loop
    singleSphere_IndicesVec,
    lineIndices,
    indicesArrLen,          \* number of slots of allSpheres_IndicesArr
    indicesWrite            \* [first, next, least, greatest]: the slots of allSpheres_IndicesArr
                            \* written by the last step of the aggregation loop,
                            \* slot first and those after it

quantumVars == <<n, l, ml>>
glVars == <<glfw, window, uploaded, frames>>
gridVars == <<branch, allSpheres_VertexVec>>
copyVars == <<vertexArrLen, i_arr, vertexWrites>>
templateVars == <<k1, k2, singleSphere_IndicesVec, lineIndices>>
aggregateVars == <<indicesArrLen, indicesWrite>>

vars == <<pc, quantumVars, output, glVars, declared, i, gridVars,
          copyVars, templateVars, aggregateVars>>

(***************************************************************************)
(* The validity check, line 338:  l+1>n || abs(ml)>abs(l) || l<0           *)
(* l+1 overflows for l = INT_MAX and abs(INT_MIN) is not representable:    *)
(* both are undefined behaviour.  A build either wraps (l+1 and abs(v) are *)
(* then INT_MIN) or reasons with the mathematical value 2^31, so each has  *)
(* two outcomes.  A value is kept as <<h, v>>: <<0, v>> is the int v and   *)
(* <<1, 0>> is 2^31, which is larger than every int.                       *)
(***************************************************************************)
TwoTo31 == <<1, 0>>

AsValue(v) == <<0, v>>

\* a > b on such values
Greater(a, b) == a[1] > b[1] \/ (a[1] = b[1] /\ a[2] > b[2])

\* l + 1
IncrementOutcomes(v) ==
    IF v = INT_MAX THEN {AsValue(INT_MIN), TwoTo31} ELSE {AsValue(v + 1)}

\* abs(v)
AbsOutcomes(v) ==
    IF v = INT_MIN THEN {AsValue(INT_MIN), TwoTo31}
    ELSE IF v < 0 THEN {AsValue(-v)} ELSE {AsValue(v)}

\* faulty variant: the test of ml against l is left out
NotAllowedOutcomes_NoMlCheck(qn, ql, qml) ==
    { Greater(s, AsValue(qn)) \/ (ql < 0) : s \in IncrementOutcomes(ql) }

\* the values the condition of line 338 can take for (qn, ql, qml)
NotAllowedOutcomes(qn, ql, qml) ==
    { Greater(s, AsValue(qn)) \/ Greater(am, al) \/ (ql < 0) :
        <<s, am, al>> \in IncrementOutcomes(ql) \X AbsOutcomes(qml) \X AbsOutcomes(ql) }

(***************************************************************************)
(* The dispatch chain, lines 391 .. 1562: the conditions in source order.  *)
(***************************************************************************)
\* faulty variant: the last three branches test ml against the positive value only
BranchCond_PositiveMlOnly(b, qn, ql, qml) ==
    CASE b = 1  -> qn = 1 /\ ql = 0 /\ qml = 0
      [] b = 2  -> qn = 2 /\ ql = 0 /\ qml = 0
      [] b = 3  -> qn = 2 /\ ql = 1 /\ qml = 0
      [] b = 4  -> qn = 2 /\ ql = 1 /\ (qml = 1 \/ qml = -1)
      [] b = 5  -> qn = 3 /\ ql = 0 /\ qml = 0
      [] b = 6  -> qn = 3 /\ ql = 1 /\ qml = 0
      [] b = 7  -> qn = 3 /\ ql = 1 /\ qml = 1
      [] b = 8  -> qn = 3 /\ ql = 2 /\ qml = 0
      [] b = 9  -> qn = 3 /\ ql = 2 /\ qml = 1
      [] b = 10 -> qn = 3 /\ ql = 2 /\ qml = 2

\* faulty variant: the last two branches take each other's negative ml
BranchCond_NegativeMlCrossed(b, qn, ql, qml) ==
    CASE b = 1  -> qn = 1 /\ ql = 0 /\ qml = 0
      [] b = 2  -> qn = 2 /\ ql = 0 /\ qml = 0
      [] b = 3  -> qn = 2 /\ ql = 1 /\ qml = 0
      [] b = 4  -> qn = 2 /\ ql = 1 /\ (qml = 1 \/ qml = -1)
      [] b = 5  -> qn = 3 /\ ql = 0 /\ qml = 0
      [] b = 6  -> qn = 3 /\ ql = 1 /\ qml = 0
      [] b = 7  -> qn = 3 /\ ql = 1 /\ (qml = 1 \/ qml = -1)
      [] b = 8  -> qn = 3 /\ ql = 2 /\ qml = 0
      [] b = 9  -> qn = 3 /\ ql = 2 /\ (qml = 1 \/ qml = -2)
      [] b = 10 -> qn = 3 /\ ql = 2 /\ (qml = 2 \/ qml = -1)

BranchCond(b, qn, ql, qml) ==
    CASE b = 1  -> qn = 1 /\ ql = 0 /\ qml = 0
      [] b = 2  -> qn = 2 /\ ql = 0 /\ qml = 0
      [] b = 3  -> qn = 2 /\ ql = 1 /\ qml = 0
      [] b = 4  -> qn = 2 /\ ql = 1 /\ (qml = 1 \/ qml = -1)
      [] b = 5  -> qn = 3 /\ ql = 0 /\ qml = 0
      [] b = 6  -> qn = 3 /\ ql = 1 /\ qml = 0
      [] b = 7  -> qn = 3 /\ ql = 1 /\ (qml = 1 \/ qml = -1)
      [] b = 8  -> qn = 3 /\ ql = 2 /\ qml = 0
      [] b = 9  -> qn = 3 /\ ql = 2 /\ (qml = 1 \/ qml = -1)
      [] b = 10 -> qn = 3 /\ ql = 2 /\ (qml = 2 \/ qml = -2)

NumBranches == 10
Branches == 1 .. NumBranches

\* the set of branches whose condition holds
MatchingBranches(qn, ql, qml) == {b \in Branches : BranchCond(b, qn, ql, qml)}

\* if / else if: the first condition that holds is taken; 0: the final else
BranchTaken(qn, ql, qml) ==
    IF MatchingBranches(qn, ql, qml) = {} THEN 0
    ELSE CHOOSE b \in MatchingBranches(qn, ql, qml) :
            \A c \in MatchingBranches(qn, ql, qml) : b <= c

\* faulty variant: the fourth branch keeps the label of the branch it was copied from
AxisLabel_Pasted(b) ==
    CASE b = 1  -> "1 Bohr (0.5 A)"
      [] b = 2  -> "2 Bohr (1.0 A)"
      [] b = 3  -> "1 Bohr (0.5 A)"
      [] b = 4  -> "1 Bohr (0.5 A)"
      [] b = 5  -> "10 Bohr (5.0 A)"
      [] b = 6  -> "7.5 Bohr (3.75 A)"
      [] b = 7  -> "6.7 Bohr (3.3 A)"
      [] b = 8  -> "10 Bohr (5 A)"
      [] b = 9  -> "10 Bohr (5 A)"
      [] b = 10 -> "10 Bohr (5 A)"

\* the label each branch prints
AxisLabel(b) ==
    CASE b = 1  -> "1 Bohr (0.5 A)"
      [] b = 2  -> "2 Bohr (1.0 A)"
      [] b = 3  -> "1 Bohr (0.5 A)"
      [] b = 4  -> "5 Bohr (2.5 A)"
      [] b = 5  -> "10 Bohr (5.0 A)"
      [] b = 6  -> "7.5 Bohr (3.75 A)"
      [] b = 7  -> "6.7 Bohr (3.3 A)"
      [] b = 8  -> "10 Bohr (5 A)"
      [] b = 9  -> "10 Bohr (5 A)"
      [] b = 10 -> "10 Bohr (5 A)"

(***************************************************************************)
(* The grid, lines 383 .. 401.                                             *)
(***************************************************************************)
\* (int) cbrt(v): the integer c with c^3 <= v < (c+1)^3
Cbrt(v) == CHOOSE c \in 0 .. v : c ^ 3 <= v /\ v < (c + 1) ^ 3

\* faulty variant: cbrt returns a value just below 11 and the conversion truncates it
numSpheres_per_side_Truncated == Cbrt(numSpheres - 1)

numSpheres_per_side == Cbrt(numSpheres)

\* step = 10.00 / (numSpheres_per_side - 1), kept as the fraction StepNum / StepDen
StepNum == 10
StepDen == numSpheres_per_side - 1
\* the half extent of the cube: the literal -5.00f
HalfExtent == 5

\* faulty variant: the centre of the cell after
GridNum_FromOne(c) == (-HalfExtent) * StepDen + (c + 1) * StepNum

\* -5.00f + (c * step), as a numerator over StepDen
GridNum(c) == (-HalfExtent) * StepDen + c * StepNum

(***************************************************************************)
(* Exact values.  Densities are kept in exact arithmetic, not rounded to   *)
(* float: a rational is <<num, den>> in lowest terms with den > 0; a       *)
(* radius is c * sqrt(m) for a rational c and an integer m >= 0; a         *)
(* density or amplitude is  coef * sqrt(pi)^sqrtPi * exp(expc * sqrt(expm)) *)
(* for rationals coef, expc and integers sqrtPi, expm.                     *)
(***************************************************************************)
RECURSIVE Gcd(_, _)
Gcd(a, b) == IF b = 0 THEN a ELSE Gcd(b, a % b)

Abs(v) == IF v < 0 THEN -v ELSE v

Rat(num, den) ==
    LET g == Gcd(Abs(num), Abs(den))
    IN IF den < 0 THEN <<(-num) \div g, (-den) \div g>> ELSE <<num \div g, den \div g>>

RatAdd(a, b) == Rat((a[1] * b[2]) + (b[1] * a[2]), a[2] * b[2])
RatSub(a, b) == Rat((a[1] * b[2]) - (b[1] * a[2]), a[2] * b[2])
RatMul(a, b) == Rat(a[1] * b[1], a[2] * b[2])
RatDiv(a, b) == Rat(a[1] * b[2], a[2] * b[1])

\* c * sqrt(m); zero has one form
Radius(c, m) ==
    IF c[1] = 0 \/ m = 0 THEN [c |-> <<0, 1>>, m |-> 0] ELSE [c |-> c, m |-> m]

\* r / k for a rational k
RadiusOver(r, k) == Radius(RatDiv(r.c, k), r.m)

Value(coef, sqrtPi, expc, expm) ==
    IF expc[1] = 0 \/ expm = 0
    THEN [coef |-> coef, sqrtPi |-> sqrtPi, expc |-> <<0, 1>>, expm |-> 0]
    ELSE [coef |-> coef, sqrtPi |-> sqrtPi, expc |-> expc, expm |-> expm]

ValueOfRat(q) == Value(q, 0, <<0, 1>>, 0)

\* a * b and a / b, for exponents over the same square root (or none)
ValueMul(a, b) ==
    Value(RatMul(a.coef, b.coef), a.sqrtPi + b.sqrtPi, RatAdd(a.expc, b.expc),
          IF a.expm = 0 THEN b.expm ELSE a.expm)

ValueDiv(a, b) ==
    Value(RatDiv(a.coef, b.coef), a.sqrtPi - b.sqrtPi, RatSub(a.expc, b.expc),
          IF a.expm = 0 THEN b.expm ELSE a.expm)

\* exp(-r)
ExpMinus(r) == Value(<<1, 1>>, 0, <<-r.c[1], r.c[2]>>, r.m)

\* sqrt(PI), PI = M_PI
SqrtPI == Value(<<1, 1>>, 1, <<0, 1>>, 0)

(***************************************************************************)
(* Spherical coordinates of a point, lines 1878 .. 1888.  The point is     *)
(* given by its numerators over StepDen.  Angles are not evaluated: an     *)
(* angle is the call that yields it, acos(z / r) as <<"acos", z, x*x +     *)
(* y*y + z*z>> and atan2(y, x) as <<"atan2", y, x>>; z / r is 0/0 at the   *)
(* origin and acos of it is NaN.                                           *)
(***************************************************************************)
r_of(x, y, z) == Radius(<<1, StepDen>>, (x * x) + (y * y) + (z * z))

\* faulty variant: the origin is given the angle 0 instead of acos(0/0)
theta_of_ZeroAtOrigin(x, y, z) ==
    IF (x * x) + (y * y) + (z * z) = 0 THEN <<"acos", 1, 1>>
    ELSE <<"acos", z, (x * x) + (y * y) + (z * z)>>

theta_of(x, y, z) ==
    IF (x * x) + (y * y) + (z * z) = 0 THEN <<"NaN", 0, 0>>
    ELSE <<"acos", z, (x * x) + (y * y) + (z * z)>>

phi_of(x, y, z) == <<"atan2", y, x>>

(***************************************************************************)
(* The evaluators, lines 1897 .. 1970.  _100_eq is computed; the other     *)
(* nine are kept as the call made.                                         *)
(***************************************************************************)
\* faulty variant: the amplitude is divided by the table maximum 0.31
_100_eq_Normalised(r, theta, phi) ==
    LET max_prob_amp == Rat(31, 100)
        wavefunction ==
            ValueDiv(ValueMul(ValueOfRat(RatDiv(<<1, 1>>, max_prob_amp)), ExpMinus(r)), SqrtPI)
    IN ValueMul(wavefunction, wavefunction)

\* max_prob_amp = 1.0f * std::pow(10, 0);
\* wavefunction = 1 / max_prob_amp * exp(-r) / sqrt(PI);  return pow(wavefunction, 2)
_100_eq(r, theta, phi) ==
    LET max_prob_amp == Rat(1 * (10 ^ 0), 1)
        wavefunction ==
            ValueDiv(ValueMul(ValueOfRat(RatDiv(<<1, 1>>, max_prob_amp)), ExpMinus(r)), SqrtPI)
    IN ValueMul(wavefunction, wavefunction)

\* the evaluator each branch calls
EvaluatorName(b) ==
    CASE b = 1  -> "_100_eq"
      [] b = 2  -> "_200_eq"
      [] b = 3  -> "_210_eq"
      [] b = 4  -> "_211_eq"
      [] b = 5  -> "_300_eq"
      [] b = 6  -> "_310_eq"
      [] b = 7  -> "_311_eq"
      [] b = 8  -> "_320_eq"
      [] b = 9  -> "_321_eq"
      [] b = 10 -> "_322_eq"

\* the literal each branch divides r by in that call; "1" where r is passed
\* as it is (line 642)
RadialDivisor(b) ==
    CASE b = 1  -> "5.0f"
      [] b = 2  -> "2.5f"
      [] b = 3  -> "1"
      [] b = 4  -> "1.0"
      [] b = 5  -> "0.5"
      [] b = 6  -> "0.666666666f"
      [] b = 7  -> "0.666666666666f"
      [] b = 8  -> "0.4f"
      [] b = 9  -> "0.5f"
      [] b = 10 -> "0.5f"

\* GLfloat probDensity = _..._eq(r/..., theta, phi) of branch b at the point
\* (x, y, z): line 408 for the first branch
ProbDensityAt(b, x, y, z) ==
    IF b = 1
    THEN _100_eq(RadiusOver(r_of(x, y, z), <<5, 1>>), theta_of(x, y, z), phi_of(x, y, z))
    ELSE <<EvaluatorName(b), r_of(x, y, z), RadialDivisor(b), theta_of(x, y, z),
           phi_of(x, y, z)>>

(***************************************************************************)
(* The mapper, lines 413 .. 416 in the first branch and 530 .. 533 (and    *)
(* the same text) in the other nine.  A mapped quantity is kept as the     *)
(* form const + slope * probDensity with rational const and slope; the     *)
(* float literals 1.5f, 0.31f, 1.0f and 0.2f stand for 3/2, 31/100, 1 and  *)
(* 1/5.  Arithmetic on a NaN yields a NaN, whatever the other operand.     *)
(***************************************************************************)
\* the evaluators whose wavefunction has a factor in theta: lines 1918, 1927,
\* 1941, 1948, 1955, 1962 and 1969
UsesTheta(b) == b \in {3, 4, 6, 7, 8, 9, 10}

\* r is 0 and theta a NaN at the origin: the product r * ... * cos(theta) (or
\* sin, or their powers) is a NaN there, and so is its square
DensityIsNaN(b, x, y, z) == UsesTheta(b) /\ theta_of(x, y, z) = <<"NaN", 0, 0>>

\* the value of the literal each branch divides r by; 0.666666666f and
\* 0.666666666666f are the float nearest 2/3, and r / 0.666666666f is the
\* float 6 for r = 4
RadialDivisorValue(b) ==
    CASE b = 1  -> <<5, 1>>
      [] b = 2  -> <<5, 2>>
      [] b = 3  -> <<1, 1>>
      [] b = 4  -> <<1, 1>>
      [] b = 5  -> <<1, 2>>
      [] b = 6  -> <<2, 3>>
      [] b = 7  -> <<2, 3>>
      [] b = 8  -> <<2, 5>>
      [] b = 9  -> <<1, 2>>
      [] b = 10 -> <<1, 2>>

\* the r at which a factor of the wavefunction is 0: (2-r) in _200_eq (line
\* 1908), (6 - r) in _310_eq and _311_eq (lines 1941, 1948); 0 where there
\* is no such factor (the roots of 27 - 18*r + 2*r*r in _300_eq are not
\* rational)
RadialNode(b) == IF b = 2 THEN 2 ELSE IF b \in {6, 7} THEN 6 ELSE 0

\* the evaluators with a factor sin(theta): lines 1927, 1948, 1962, 1969
HasSinTheta(b) == b \in {4, 7, 9, 10}

\* c * sqrt(m) = k, for an integer k > 0
RadiusEquals(r, k) == r.c[1] * r.c[1] * r.m = k * k * r.c[2] * r.c[2]

\* the density of branch b at (x, y, z) is exactly 0: a radial factor is 0,
\* or theta is acos(1) = 0 (x = y = 0 and z > 0) and sin(theta) is a factor.
\* Where a factor is 0 only up to rounding (cos(theta) at z = 0, sin(theta)
\* at theta = acos(-1)) the float product is not 0.
DensityIsZero(b, x, y, z) ==
    /\ ~DensityIsNaN(b, x, y, z)
    /\ \/ /\ RadialNode(b) # 0
          /\ RadiusEquals(RadiusOver(r_of(x, y, z), RadialDivisorValue(b)), RadialNode(b))
       \/ /\ HasSinTheta(b)
          /\ x = 0 /\ y = 0 /\ z > 0

\* lengthInv = 1.0f / sphereRadius (line 429 and the same text): the
\* radius is a non-zero multiple of the density
lengthInv(b, x, y, z) ==
    IF DensityIsNaN(b, x, y, z) THEN "NaN"
    ELSE IF DensityIsZero(b, x, y, z) THEN "inf"
    ELSE "finite"

Lin(nan, const, slope) ==
    IF nan THEN [nan |-> TRUE, const |-> <<0, 1>>, slope |-> <<0, 1>>]
    ELSE [nan |-> FALSE, const |-> const, slope |-> slope]

LinOfRat(k) == Lin(FALSE, k, <<0, 1>>)
LinScale(k, f) == Lin(f.nan, RatMul(k, f.const), RatMul(k, f.slope))
LinOver(f, k) == Lin(f.nan, RatDiv(f.const, k), RatDiv(f.slope, k))
LinAdd(f, g) == Lin(f.nan \/ g.nan, RatAdd(f.const, g.const), RatAdd(f.slope, g.slope))
LinSub(f, g) == Lin(f.nan \/ g.nan, RatSub(f.const, g.const), RatSub(f.slope, g.slope))

\* the variable probDensity of the sample at (x, y, z)
DensityForm(b, x, y, z) == Lin(DensityIsNaN(b, x, y, z), <<0, 1>>, <<1, 1>>)

\* GLfloat step = 10.00 / (numSpheres_per_side - 1)
step == Rat(StepNum, StepDen)

sphereRadius(b, probDensity) ==
    IF b = 1
    THEN LinOver(LinScale(RatDiv(step, <<3, 2>>), probDensity), <<31, 100>>)
    ELSE LinScale(RatDiv(step, <<3, 2>>), probDensity)

sphereColor_red(b, probDensity) ==
    IF b = 1
    THEN LinScale(<<1, 1>>, LinSub(LinOfRat(<<1, 1>>), LinOver(probDensity, <<31, 100>>)))
    ELSE LinScale(<<1, 1>>, LinSub(LinOfRat(<<1, 1>>), probDensity))

sphereColor_green(b, probDensity) ==
    IF b = 1
    THEN LinOver(LinScale(<<1, 1>>, probDensity), <<31, 100>>)
    ELSE LinScale(<<1, 1>>, probDensity)

sphereColor_blue == LinOfRat(<<1, 5>>)

(***************************************************************************)
(* One sphere, lines 421 .. 494 (the same text in all ten branches).       *)
(***************************************************************************)
\* faulty variant: the loops stop before stackCount and sectorCount
VertexLoopPasses_Exclusive == (0 .. (stackCount - 1)) \X (0 .. (sectorCount - 1))

\* the passes of the two vertex loops: (i_local, j_local)
VertexLoopPasses == (0 .. stackCount) \X (0 .. sectorCount)

\* sphereVertices.size() and sphereNormals.size(): three push_back per pass
sphereVerticesSize == 3 * Cardinality(VertexLoopPasses)

\* sphereNormals.size(): three pushes per pass, lines 459 .. 461
sphereNormalsSize == 3 * Cardinality(VertexLoopPasses)

\* faulty variant: the division by 3 is left out
length_completeSphereVertexVec_PerValue == sphereVerticesSize * 11

length_completeSphereVertexVec == (sphereVerticesSize * 11) \div 3

\* a value pushed by the interleave loop: element k of one of the sphere's
\* vectors, one of the sphere's scalars, or a literal
ElementOf(vec, k) == <<vec, k>>
Scalar(name) == <<name, 0>>
Literal(v) == <<"literal", v>>

\* faulty variant: the two texture coordinates are not pushed
InterleavePass_NoTexCoord(j_a) ==
    << ElementOf("sphereVertices", j_a), ElementOf("sphereVertices", j_a + 1),
       ElementOf("sphereVertices", j_a + 2),
       Scalar("sphereColor_red"), Scalar("sphereColor_green"), Scalar("sphereColor_blue"),
       ElementOf("sphereNormals", j_a), ElementOf("sphereNormals", j_a + 1),
       ElementOf("sphereNormals", j_a + 2) >>

\* faulty variant: the normals are read after j_a has moved on once more
InterleavePass_NextNormal(j_a) ==
    << ElementOf("sphereVertices", j_a), ElementOf("sphereVertices", j_a + 1),
       ElementOf("sphereVertices", j_a + 2),
       Scalar("sphereColor_red"), Scalar("sphereColor_green"), Scalar("sphereColor_blue"),
       Literal(0), Literal(0),
       ElementOf("sphereNormals", j_a + 3), ElementOf("sphereNormals", j_a + 4),
       ElementOf("sphereNormals", j_a + 5) >>

\* one pass of the interleave loop, entered with j_a: the 11 values pushed,
\* lines 479 .. 493 (the normals are read at j_a-3 .. j_a-1 after j_a += 3)
InterleavePass(j_a) ==
    << ElementOf("sphereVertices", j_a), ElementOf("sphereVertices", j_a + 1),
       ElementOf("sphereVertices", j_a + 2),
       Scalar("sphereColor_red"), Scalar("sphereColor_green"), Scalar("sphereColor_blue"),
       Literal(0), Literal(0),
       ElementOf("sphereNormals", j_a), ElementOf("sphereNormals", j_a + 1),
       ElementOf("sphereNormals", j_a + 2) >>

\* the loop  for (i_a = 0; i_a < length_completeSphereVertexVec;)  adds one
\* to i_a per value pushed: it makes the least number of passes p whose
\* values reach the length
InterleavePasses ==
    CHOOSE p \in 0 .. length_completeSphereVertexVec :
        /\ p * Len(InterleavePass(0)) >= length_completeSphereVertexVec
        /\ \A r \in 0 .. (p - 1) : r * Len(InterleavePass(0)) < length_completeSphereVertexVec

\* pass number p (from 0) runs with j_a = 3 p
completeSphereVertexVec ==
    [q \in 1 .. InterleavePasses * Len(InterleavePass(0)) |->
        InterleavePass(3 * ((q - 1) \div Len(InterleavePass(0))))
            [((q - 1) % Len(InterleavePass(0))) + 1]]

completeSphereVertexVecSize == Len(completeSphereVertexVec)

(***************************************************************************)
(* The index template, lines 1586 .. 1623: what one pass of the inner loop *)
(* appends for stack i at k1, k2.                                          *)
(***************************************************************************)
\* faulty variant: the first stack's degenerate triangle is not left out
TrianglePass_FirstStackKept(si, a, b) ==
    <<a, b, a + 1>>
    \o (IF si # (stackCount - 1) THEN <<a + 1, b, b + 1>> ELSE <<>>)

\* faulty variant: the two triangles of a sector are emitted in the other order
TrianglePass_SecondFirst(si, a, b) ==
    (IF si # (stackCount - 1) THEN <<a + 1, b, b + 1>> ELSE <<>>)
    \o (IF si # 0 THEN <<a, b, a + 1>> ELSE <<>>)

TrianglePass(si, a, b) ==
    (IF si # 0 THEN <<a, b, a + 1>> ELSE <<>>)
    \o (IF si # (stackCount - 1) THEN <<a + 1, b, b + 1>> ELSE <<>>)

LinePass(si, a, b) ==
    <<a, b>> \o (IF si # 0 THEN <<a, a + 1>> ELSE <<>>)

\* faulty variant: the offset is that of the next sphere
IndexValue_NextSphere(q) ==
    singleSphere_IndicesVec[(q % Len(singleSphere_IndicesVec)) + 1]
        + NUM_VERTICES_PER_SPHERE * ((q \div Len(singleSphere_IndicesVec)) + 1)

\* faulty variant: the template is repeated with no offset
IndexValue_NoOffset(q) ==
    singleSphere_IndicesVec[(q % Len(singleSphere_IndicesVec)) + 1]

\* faulty variant: the offset grows with the slot, not with the sphere
IndexValue_SlotOffset(q) ==
    singleSphere_IndicesVec[(q % Len(singleSphere_IndicesVec)) + 1]
        + NUM_VERTICES_PER_SPHERE * q

\* line 1633: the value stored in slot q of allSpheres_IndicesArr
\* (mod_i = q % size, the local n = q / size); the int is stored in a GLuint
\* slot, which keeps a value in 0 .. INT_MAX as it is
IndexValue(q) ==
    singleSphere_IndicesVec[(q % Len(singleSphere_IndicesVec)) + 1]
        + NUM_VERTICES_PER_SPHERE * (q \div Len(singleSphere_IndicesVec))

(***************************************************************************)
(* The attribute layout given to the renderer, lines 1715 .. 1718: each    *)
(* VAO4.LinkAttrib(VBO4, layout, numComponents, GL_FLOAT, stride, offset), *)
(* stride and offset counted in floats.                                    *)
(***************************************************************************)
LinkAttribStride == 11

LinkAttribs ==
    << [layout |-> 0, numComponents |-> 3, offset |-> 0],
       [layout |-> 1, numComponents |-> 3, offset |-> 3],
       [layout |-> 2, numComponents |-> 2, offset |-> 6],
       [layout |-> 3, numComponents |-> 3, offset |-> 8] >>

(***************************************************************************)
(* Loops followed several passes at a time.                                *)
(***************************************************************************)
\* the sphere pushed for grid cell (ci, cj, ck): its centre, the number of
\* vertices its two vertex loops generate and the number of values of its
\* completeSphereVertexVec
SphereAt(ci, cj, ck) ==
    [cell |-> <<ci, cj, ck>>,
     center |-> <<GridNum(ci), GridNum(cj), GridNum(ck)>>,
     probDensity |-> ProbDensityAt(branch, GridNum(ci), GridNum(cj), GridNum(ck)),
     sphereRadius |->
         sphereRadius(branch, DensityForm(branch, GridNum(ci), GridNum(cj), GridNum(ck))),
     sphereColor_red |->
         sphereColor_red(branch, DensityForm(branch, GridNum(ci), GridNum(cj), GridNum(ck))),
     sphereColor_green |->
         sphereColor_green(branch, DensityForm(branch, GridNum(ci), GridNum(cj), GridNum(ck))),
     sphereColor_blue |-> sphereColor_blue,
     lengthInv |-> lengthInv(branch, GridNum(ci), GridNum(cj), GridNum(ck)),
     vertices |-> Cardinality(VertexLoopPasses),
     size |-> completeSphereVertexVecSize]

\* faulty variant: the loop over k is the middle loop and j the innermost
PlaneSpheres_KMiddle(ci) ==
    [q \in 1 .. numSpheres_per_side * numSpheres_per_side |->
        SphereAt(ci, (q - 1) % numSpheres_per_side, (q - 1) \div numSpheres_per_side)]

\* one pass of the outermost grid loop: the loops over j and k push the
\* spheres of the cells (ci, 0, 0), (ci, 0, 1), ... in this order
PlaneSpheres(ci) ==
    [q \in 1 .. numSpheres_per_side * numSpheres_per_side |->
        SphereAt(ci, (q - 1) \div numSpheres_per_side, (q - 1) % numSpheres_per_side)]

\* the inner index loop of stack si from sector sj on: k1 and k2 have been
\* incremented sj times since a and b
RECURSIVE StackTriangles(_, _, _, _)
StackTriangles(si, sj, a, b) ==
    IF sj < sectorCount
    THEN TrianglePass(si, a + sj, b + sj) \o StackTriangles(si, sj + 1, a, b)
    ELSE <<>>

RECURSIVE StackLines(_, _, _, _)
StackLines(si, sj, a, b) ==
    IF sj < sectorCount
    THEN LinePass(si, a + sj, b + sj) \o StackLines(si, sj + 1, a, b)
    ELSE <<>>

\* the number of values of the spheres lo .. hi of allSpheres_VertexVec
RECURSIVE SumSizes(_, _)
SumSizes(lo, hi) ==
    IF lo > hi THEN 0
    ELSE IF lo = hi THEN allSpheres_VertexVec[lo].size
    ELSE SumSizes(lo, (lo + hi) \div 2) + SumSizes(((lo + hi) \div 2) + 1, hi)

Min(a, b) == IF a < b THEN a ELSE b

Max(a, b) == IF a > b THEN a ELSE b

\* the least and the greatest of the values the aggregation loop stores in
\* the slots lo .. hi of allSpheres_IndicesArr
RECURSIVE LeastStored(_, _)
LeastStored(lo, hi) ==
    IF lo = hi THEN IndexValue(lo)
    ELSE Min(LeastStored(lo, (lo + hi) \div 2), LeastStored(((lo + hi) \div 2) + 1, hi))

RECURSIVE GreatestStored(_, _)
GreatestStored(lo, hi) ==
    IF lo = hi THEN IndexValue(lo)
    ELSE Max(GreatestStored(lo, (lo + hi) \div 2), GreatestStored(((lo + hi) \div 2) + 1, hi))

(***************************************************************************)
(* Initial state: the globals hold their defaults, main() has printed the  *)
(* banner and the first prompt and waits on std::cin.                      *)
(***************************************************************************)
Init ==
    /\ pc = "read_n"
    /\ n = DefaultN /\ l = DefaultL /\ ml = DefaultMl
    /\ output = <<MsgBanner, MsgPromptN>>
    /\ glfw = "off"
    /\ window = "none"
    /\ declared = {}
    /\ uploaded = {}
    /\ frames = 0
    /\ branch = 0
    /\ i = 0
    /\ allSpheres_VertexVec = <<>>
    /\ vertexArrLen = 0
    /\ i_arr = 0
    /\ vertexWrites = <<>>
    /\ k1 = 0 /\ k2 = 0
    /\ singleSphere_IndicesVec = <<>>
    /\ lineIndices = <<>>
    /\ indicesArrLen = 0
    /\ indicesWrite = [first |-> 0, next |-> 0, least |-> 0, greatest |-> 0]

\* lines 330 .. 335
ReadN ==
    /\ pc = "read_n"
    /\ \E v \in InputValues : n' = v
    /\ output' = Append(output, MsgPromptL)
    /\ pc' = "read_l"
    /\ UNCHANGED <<l, ml, glVars, declared, i, gridVars, copyVars,
                   templateVars, aggregateVars>>

ReadL ==
    /\ pc = "read_l"
    /\ \E v \in InputValues : l' = v
    /\ output' = Append(output, MsgPromptMl)
    /\ pc' = "read_ml"
    /\ UNCHANGED <<n, ml, glVars, declared, i, gridVars, copyVars,
                   templateVars, aggregateVars>>

ReadMl ==
    /\ pc = "read_ml"
    /\ \E v \in InputValues : ml' = v
    /\ output' = Append(output, MsgNewline)
    /\ pc' = "validate"
    /\ UNCHANGED <<n, l, glVars, declared, i, gridVars, copyVars,
                   templateVars, aggregateVars>>

\* faulty variant: the message is printed and main() does not return
Validate_NoReturn ==
    /\ pc = "validate"
    /\ \E notAllowed \in NotAllowedOutcomes(n, l, ml) :
          IF notAllowed
          THEN output' = Append(output, MsgNotAllowed)
          ELSE output' = output
    /\ pc' = "glfw_init"
    /\ UNCHANGED <<quantumVars, glVars, declared, i, gridVars, copyVars,
                   templateVars, aggregateVars>>

\* lines 338 .. 341
Validate ==
    /\ pc = "validate"
    /\ \E notAllowed \in NotAllowedOutcomes(n, l, ml) :
          IF notAllowed
          THEN /\ output' = Append(output, MsgNotAllowed)
               /\ pc' = "exit_invalid"
          ELSE /\ output' = output
               /\ pc' = "glfw_init"
    /\ UNCHANGED <<quantumVars, glVars, declared, i, gridVars, copyVars,
                   templateVars, aggregateVars>>

\* line 346
GlfwInit ==
    /\ pc = "glfw_init"
    /\ glfw' = "init"
    /\ pc' = "create_window"
    /\ UNCHANGED <<quantumVars, output, window, uploaded, frames, declared,
                   i, gridVars, copyVars, templateVars, aggregateVars>>

\* lines 358 .. 367: glfwCreateWindow returns a window or NULL
CreateWindow ==
    /\ pc = "create_window"
    /\ \E created \in BOOLEAN :
          IF created
          THEN /\ window' = "open"
               /\ UNCHANGED <<output, glfw>>
               /\ pc' = "declare_vec"
          ELSE /\ window' = "null"
               /\ output' = Append(output, MsgWindowFailed)
               /\ glfw' = "terminated"
               /\ pc' = "exit_window"
    /\ UNCHANGED <<quantumVars, uploaded, frames, declared, i, gridVars,
                   copyVars, templateVars, aggregateVars>>

\* line 380
DeclareVertexVec ==
    /\ pc = "declare_vec"
    /\ declared' = declared \cup {"allSpheres_VertexVec"}
    /\ allSpheres_VertexVec' = <<>>
    /\ pc' = "dispatch"
    /\ UNCHANGED <<quantumVars, output, glVars, i, branch,
                   copyVars, templateVars, aggregateVars>>

\* faulty variant: the final else asks for the quantum numbers again
Dispatch_Retry ==
    /\ pc = "dispatch"
    /\ branch' = BranchTaken(n, l, ml)
    /\ IF branch' = 0
       THEN /\ output' = Append(output, MsgNotSupported)
            /\ pc' = "validate"
       ELSE /\ output' = Append(output, MsgScale(AxisLabel(branch')))
            /\ pc' = "sample"
    /\ i' = 0
    /\ UNCHANGED <<quantumVars, glVars, declared, allSpheres_VertexVec,
                   copyVars, templateVars, aggregateVars>>

\* the if / else if chain, lines 391 .. 1562: the label of the branch taken
\* is printed and its grid loops start, or the final else returns
Dispatch ==
    /\ pc = "dispatch"
    /\ branch' = BranchTaken(n, l, ml)
    /\ IF branch' = 0
       THEN /\ output' = Append(output, MsgNotSupported)
            /\ pc' = "exit_unsupported"
       ELSE /\ output' = Append(output, MsgScale(AxisLabel(branch')))
            /\ pc' = "sample"
    /\ i' = 0
    /\ UNCHANGED <<quantumVars, glVars, declared, allSpheres_VertexVec,
                   copyVars, templateVars, aggregateVars>>

\* one pass of the outermost grid loop (lines 394 .. 506 and the same text in
\* the other branches): a sphere per cell (i, j, k) of the plane i is pushed
SamplePlane ==
    /\ pc = "sample"
    /\ IF i < numSpheres_per_side
       THEN /\ allSpheres_VertexVec' = allSpheres_VertexVec \o PlaneSpheres(i)
            /\ i' = i + 1
            /\ pc' = "sample"
       ELSE /\ pc' = "declare_arr"
            /\ UNCHANGED <<i, allSpheres_VertexVec>>
    /\ UNCHANGED <<quantumVars, output, glVars, declared, branch,
                   copyVars, templateVars, aggregateVars>>

\* lines 1567 .. 1568
DeclareVertexArr ==
    /\ pc = "declare_arr"
    /\ declared' = declared \cup {"allSpheres_VertexArr"}
    /\ vertexArrLen' = numSpheres * allSpheres_VertexVec[1].size
    /\ i_arr' = 0
    /\ i' = 0
    /\ pc' = "copy"
    /\ UNCHANGED <<quantumVars, output, glVars, gridVars, vertexWrites,
                   templateVars, aggregateVars>>

\* ChunkSpheres passes of the outer copy loop, lines 1569 .. 1573: the inner
\* loop writes the slots i_arr, i_arr + 1, ... one by one
CopySpheres ==
    /\ pc = "copy"
    /\ IF i < Len(allSpheres_VertexVec)
       THEN LET last == Min(i + ChunkSpheres, Len(allSpheres_VertexVec))
                \* the slots the inner loop fills for the q-th sphere of the step
                runs == [q \in 1 .. (last - i) |->
                            <<i_arr + SumSizes(i + 1, i + q - 1),
                              i_arr + SumSizes(i + 1, i + q)>>]
            IN /\ i_arr' = i_arr + SumSizes(i + 1, last)
               /\ vertexWrites' = vertexWrites \o runs
               /\ i' = last
               /\ pc' = "copy"
       ELSE /\ i' = 0
            /\ pc' = "template"
            /\ UNCHANGED <<i_arr, vertexWrites>>
    /\ UNCHANGED <<quantumVars, output, glVars, declared, gridVars,
                   vertexArrLen, templateVars, aggregateVars>>

\* one pass of the outer index loop, lines 1589 .. 1623: a stack, with the
\* increments ++j, ++k1, ++k2 of its sectorCount inner passes
TemplateStack ==
    /\ pc = "template"
    /\ IF i < stackCount
       THEN LET a == i * (sectorCount + 1)
                b == a + sectorCount + 1
            IN /\ singleSphere_IndicesVec' =
                     singleSphere_IndicesVec \o StackTriangles(i, 0, a, b)
               /\ lineIndices' = lineIndices \o StackLines(i, 0, a, b)
               /\ k1' = a + sectorCount
               /\ k2' = b + sectorCount
               /\ i' = i + 1
               /\ pc' = "template"
               /\ UNCHANGED <<declared, aggregateVars>>
       ELSE \* lines 1629 .. 1630
            /\ declared' = declared \cup {"allSpheres_IndicesArr"}
            /\ indicesArrLen' = numSpheres * Len(singleSphere_IndicesVec)
            /\ i' = 0
            /\ pc' = "aggregate"
            /\ UNCHANGED <<k1, k2, singleSphere_IndicesVec, lineIndices, indicesWrite>>
    /\ UNCHANGED <<quantumVars, output, glVars, gridVars, copyVars>>

\* faulty variant: line 1632 assigns to the global n instead of declaring a
\* local of that name
AggregateSpheres_GlobalN ==
    /\ pc = "aggregate"
    /\ IF i < indicesArrLen
       THEN LET last == Min(i + ChunkSpheres * Len(singleSphere_IndicesVec), indicesArrLen)
            IN /\ indicesWrite' = [first |-> i, next |-> last,
                                   least |-> LeastStored(i, last - 1),
                                   greatest |-> GreatestStored(i, last - 1)]
               /\ n' = (last - 1) \div Len(singleSphere_IndicesVec)
               /\ i' = last
               /\ pc' = "aggregate"
       ELSE /\ pc' = "handoff"
            /\ UNCHANGED <<n, i, indicesWrite>>
    /\ UNCHANGED <<l, ml, output, glVars, declared, gridVars, copyVars,
                   templateVars, indicesArrLen>>

\* lines 1630 .. 1634: the passes of the aggregation loop for ChunkSpheres
\* spheres, slot i first
AggregateSpheres ==
    /\ pc = "aggregate"
    /\ IF i < indicesArrLen
       THEN LET last == Min(i + ChunkSpheres * Len(singleSphere_IndicesVec), indicesArrLen)
            IN /\ indicesWrite' = [first |-> i, next |-> last,
                                   least |-> LeastStored(i, last - 1),
                                   greatest |-> GreatestStored(i, last - 1)]
               /\ i' = last
               /\ pc' = "aggregate"
       ELSE /\ pc' = "handoff"
            /\ UNCHANGED <<i, indicesWrite>>
    /\ UNCHANGED <<quantumVars, output, glVars, declared, gridVars, copyVars,
                   templateVars, indicesArrLen>>

\* lines 1711 .. 1713: VBO4 and EBO4 take the two aggregate arrays
HandOff ==
    /\ pc = "handoff"
    /\ uploaded' = {"allSpheres_VertexArr", "allSpheres_IndicesArr"}
    /\ pc' = "render"
    /\ UNCHANGED <<quantumVars, output, glfw, window, frames, declared, i,
                   gridVars, copyVars, templateVars, aggregateVars>>

\* faulty variant: a frame runs the dispatch chain and what follows it again
RenderFrame_Regenerate ==
    /\ pc = "render"
    /\ frames < MaxFrames
    /\ frames' = frames + 1
    /\ pc' = "dispatch"
    /\ UNCHANGED <<quantumVars, output, glfw, window, uploaded, declared, i,
                   gridVars, copyVars, templateVars, aggregateVars>>

\* one pass of the render loop, lines 1778 .. 1836: it draws, and writes
\* none of the pipeline's variables
RenderFrame ==
    /\ pc = "render"
    /\ frames < MaxFrames
    /\ frames' = frames + 1
    /\ UNCHANGED <<pc, quantumVars, output, glfw, window, uploaded, declared, i,
                   gridVars, copyVars, templateVars, aggregateVars>>

\* glfwWindowShouldClose: the loop ends, lines 1843 .. 1873
CloseWindow ==
    /\ pc = "render"
    /\ window' = "destroyed"
    /\ glfw' = "terminated"
    /\ pc' = "exit_ok"
    /\ UNCHANGED <<quantumVars, output, uploaded, frames, declared, i,
                   gridVars, copyVars, templateVars, aggregateVars>>

Next ==
    \/ ReadN
    \/ ReadL
    \/ ReadMl
    \/ Validate
    \/ GlfwInit
    \/ CreateWindow
    \/ DeclareVertexVec
    \/ Dispatch
    \/ SamplePlane
    \/ DeclareVertexArr
    \/ CopySpheres
    \/ TemplateStack
    \/ AggregateSpheres
    \/ HandOff
    \/ RenderFrame
    \/ CloseWindow

Spec == Init /\ [][Next]_vars

\* the positions of main() from the validity check to the hand-off, where
\* it waits for nothing (no input is read, no event is awaited)
PipelinePositions ==
    {"validate", "glfw_init", "create_window", "declare_vec", "dispatch", "sample",
     "declare_arr", "copy", "template", "aggregate", "handoff"}

PcValues ==
    {"read_n", "read_l", "read_ml", "exit_invalid", "exit_window", "exit_unsupported",
     "render", "exit_ok"} \cup PipelinePositions

\* the statement at a pipeline position is executed: it moves main() to
\* another position or moves the counter of the loop it is in.  Each of
\* Validate, GlfwInit, CreateWindow, DeclareVertexVec, Dispatch, SamplePlane,
\* DeclareVertexArr, CopySpheres, TemplateStack, AggregateSpheres and HandOff
\* is such a step, and one of them can be taken at each of these positions.
PipelineStep ==
    /\ pc \in PipelinePositions
    /\ pc' \in PcValues
    /\ i' \in 0 .. Max(numSpheres, indicesArrLen)

\* main() is one thread: between the validity check and the hand-off it
\* does not stop
LiveSpec == Spec /\ WF_<<pc, i>>(PipelineStep)

(***************************************************************************)
(* Vocabulary of the properties.                                           *)
(***************************************************************************)
Printed(msg) == \E q \in 1 .. Len(output) : output[q] = msg

\* the number of axis-scale lines printed
ScaleLinesPrinted ==
    Cardinality({q \in 1 .. Len(output) : Len(output[q]) = 3
                                          /\ output[q][1] = "Scale factor: axes extend to "})

\* main() is past the validity check / past the dispatch chain
BeforeValidation == pc \in {"read_n", "read_l", "read_ml", "validate"}
BeforeDispatch ==
    BeforeValidation \/ pc \in {"exit_invalid", "glfw_init", "create_window",
                                "exit_window", "declare_vec", "dispatch"}
Dispatched == ~BeforeDispatch
\* the grid loops have ended
Sampled == Dispatched /\ pc \notin {"sample", "exit_unsupported"}

\* the ten supported table entries, 14 triples with both signs of ml
SupportedTriples ==
    { <<1, 0, 0>>, <<2, 0, 0>>, <<2, 1, 0>>, <<2, 1, 1>>, <<2, 1, -1>>,
      <<3, 0, 0>>, <<3, 1, 0>>, <<3, 1, 1>>, <<3, 1, -1>>,
      <<3, 2, 0>>, <<3, 2, 1>>, <<3, 2, -1>>, <<3, 2, 2>>, <<3, 2, -2>> }

NoGeometry ==
    /\ allSpheres_VertexVec = <<>>
    /\ "allSpheres_VertexArr" \notin declared
    /\ "allSpheres_IndicesArr" \notin declared
    /\ vertexArrLen = 0 /\ i_arr = 0 /\ vertexWrites = <<>>
    /\ indicesArrLen = 0 /\ indicesWrite.next = 0
    /\ uploaded = {}

(***************************************************************************)
(* C1.  After aggregation over all 1331 instances every value stored in    *)
(* allSpheres_IndicesArr is below 1331 x 100 = 133100, the number of       *)
(* vertices of the aggregate vertex array (11 floats each): no index       *)
(* points past its end.  Every slot is checked in the state that stores    *)
(* it; the loop never writes a slot twice.                                 *)
(***************************************************************************)
C1_IndicesBelowVertexCount ==
    /\ numSpheres * NUM_VERTICES_PER_SPHERE = 133100
    /\ indicesWrite.next > indicesWrite.first =>
          /\ indicesWrite.least >= 0
          /\ indicesWrite.greatest < numSpheres * NUM_VERTICES_PER_SPHERE
          /\ (indicesWrite.greatest + 1) * 11 <= vertexArrLen
    /\ pc = "aggregate" => indicesWrite.next = i
    /\ pc = "handoff" =>
          /\ i = indicesArrLen
          /\ indicesWrite.next = indicesArrLen

\* the last sphere's indices are stored; the largest of them is 133098
C1_Witness ==
    /\ pc = "handoff"
    /\ indicesWrite.next = numSpheres * Len(singleSphere_IndicesVec)
    /\ indicesWrite.greatest = 133098

(***************************************************************************)
(* C2 as stated: for stackCount = sectorCount = 9 the index list of one    *)
(* sphere has exactly 144 entries and the aggregate index array has        *)
(* 1331 x 144 slots.                                                       *)
(***************************************************************************)
C2_Original ==
    pc \in {"aggregate", "handoff", "render", "exit_ok"} =>
        /\ Len(singleSphere_IndicesVec) = 144
        /\ indicesArrLen = 1331 * 144

(***************************************************************************)
(* C2 amended: the index list of one sphere has exactly 432 entries, the   *)
(* three indices of each of NUM_TRIANGLES_PER_SPHERE = 144 triangles, and  *)
(* the aggregate index array has 1331 x 432 slots.                         *)
(***************************************************************************)
C2_TemplateLength ==
    pc \in {"aggregate", "handoff", "render", "exit_ok"} =>
        /\ Len(singleSphere_IndicesVec) = 432
        /\ Len(singleSphere_IndicesVec) = 3 * NUM_TRIANGLES_PER_SPHERE
        /\ indicesArrLen = 1331 * 432

C2_Witness ==
    /\ pc = "aggregate"
    /\ i = 0
    /\ Len(singleSphere_IndicesVec) = 432
    /\ indicesArrLen = 574992

(***************************************************************************)
(* C3.  For every accepted state allSpheres_VertexArr has exactly          *)
(* 1331 x 100 x 11 slots; the copy loop writes adjacent runs of slots      *)
(* starting at slot 0, 1100 slots per sphere copied, none out of bounds,   *)
(* and when the loop ends the cursor i_arr equals the array length: every  *)
(* slot was written exactly once.                                          *)
(***************************************************************************)
C3_VertexArrFilledOnce ==
    /\ "allSpheres_VertexArr" \in declared => vertexArrLen = 1331 * 100 * 11
    /\ \A q \in 1 .. Len(vertexWrites) :
          /\ vertexWrites[q][1] = (IF q = 1 THEN 0 ELSE vertexWrites[q - 1][2])
          /\ vertexWrites[q][1] < vertexWrites[q][2]
          /\ vertexWrites[q][2] <= vertexArrLen
    /\ vertexWrites # <<>> => vertexWrites[Len(vertexWrites)][2] = i_arr
    /\ pc = "copy" => i_arr = 1100 * i
    /\ pc \in {"template", "aggregate", "handoff", "render", "exit_ok"} =>
          /\ i_arr = vertexArrLen
          /\ vertexWrites # <<>>

C3_Witness ==
    /\ pc = "template"
    /\ i_arr = 1464100
    /\ vertexArrLen = 1464100
    /\ <<n, l, ml>> = <<3, 2, -1>>

(***************************************************************************)
(* C4.  A triple (n, l, ml) is rejected as invalid ("not allowed" is       *)
(* printed and the process exits) if and only if l < 0 or l+1 > n or       *)
(* |ml| > |l|; every triple that gets past the check has 0 <= l <= n-1     *)
(* and |ml| <= l; (0,0,0) is rejected.  l+1 > n is written l >= n and the  *)
(* absolute values are those of the integers, 2^31 for INT_MIN.            *)
(***************************************************************************)
MathAbs(v) == IF v = INT_MIN THEN TwoTo31 ELSE IF v < 0 THEN AsValue(-v) ELSE AsValue(v)

PhysicallyInvalid(qn, ql, qml) ==
    ql < 0 \/ ql >= qn \/ Greater(MathAbs(qml), MathAbs(ql))

C4_RejectedIffInvalid ==
    ~BeforeValidation =>
        /\ pc = "exit_invalid" <=> PhysicallyInvalid(n, l, ml)
        /\ Printed(MsgNotAllowed) <=> PhysicallyInvalid(n, l, ml)
        /\ pc # "exit_invalid" =>
              /\ 0 <= l /\ l <= n - 1
              /\ Greater(MathAbs(ml), AsValue(l)) = FALSE
        /\ <<n, l, ml>> = <<0, 0, 0>> => pc = "exit_invalid"

(***************************************************************************)
(* C5.  A triple that passed the validity check is rejected as             *)
(* unsupported ("not yet supported" is printed and the process exits) if   *)
(* and only if it is not one of the 14 supported triples; for each of the  *)
(* 14 exactly one condition of the if/else chain holds and that branch is  *)
(* the one taken.                                                          *)
(***************************************************************************)
C5_UnsupportedIffNotInTable ==
    Dispatched =>
        /\ pc = "exit_unsupported" <=> <<n, l, ml>> \notin SupportedTriples
        /\ Printed(MsgNotSupported) <=> <<n, l, ml>> \notin SupportedTriples
        /\ <<n, l, ml>> \in SupportedTriples =>
              /\ branch \in Branches
              /\ MatchingBranches(n, l, ml) = {branch}
        /\ <<n, l, ml>> \notin SupportedTriples => branch = 0

\* a valid triple outside the table is turned away by the final else
C5_Witness ==
    /\ pc = "exit_unsupported"
    /\ <<n, l, ml>> = <<4, 3, -2>>
    /\ Printed(MsgNotSupported)

(***************************************************************************)
(* C6.  Once either rejection message is printed the process is at its     *)
(* exit and takes no further step, and no geometry exists:                 *)
(* allSpheres_VertexVec holds no sphere, and neither aggregate array was   *)
(* created, written or handed to the renderer.                             *)
(***************************************************************************)
C6_RejectionLeavesNoGeometry ==
    (Printed(MsgNotAllowed) \/ Printed(MsgNotSupported)
        \/ pc \in {"exit_invalid", "exit_unsupported"}) =>
        /\ pc \in {"exit_invalid", "exit_unsupported"}
        /\ ~ENABLED Next
        /\ NoGeometry

C6_Witness ==
    /\ pc = "exit_unsupported"
    /\ Printed(MsgNotSupported)
    /\ "allSpheres_VertexVec" \in declared
    /\ allSpheres_VertexVec = <<>>

(***************************************************************************)
(* C7 as stated: for the input (2,1,2) the program reports the triple as   *)
(* unsupported and exits with no geometry.                                 *)
(***************************************************************************)
C7_Original ==
    (<<n, l, ml>> = <<2, 1, 2>> /\ ~BeforeValidation) =>
        /\ pc \in {"glfw_init", "create_window", "exit_window", "declare_vec",
                   "dispatch", "exit_unsupported"}
        /\ pc \in {"exit_invalid", "exit_unsupported"} =>
              (Printed(MsgNotSupported) /\ NoGeometry)

(***************************************************************************)
(* C7 amended: for the input (2,1,2) the validity check fires first: the   *)
(* program prints "not allowed" (invalid, since |ml| > |l|), never prints  *)
(* "not yet supported", and exits with no geometry.                        *)
(***************************************************************************)
C7_InvalidFiresFirst ==
    (<<n, l, ml>> = <<2, 1, 2>> /\ ~BeforeValidation) =>
        /\ pc = "exit_invalid"
        /\ Printed(MsgNotAllowed)
        /\ ~Printed(MsgNotSupported)
        /\ NoGeometry
        /\ ~ENABLED Next

C7_Witness ==
    /\ <<n, l, ml>> = <<2, 1, 2>>
    /\ pc = "exit_invalid"
    /\ output[Len(output)] = MsgNotAllowed

(***************************************************************************)
(* C8.  For each of the 14 supported triples, once the dispatch chain has  *)
(* run, no rejection message was printed and exactly one axis-scale line   *)
(* was printed, with the label recorded for that state.                    *)
(***************************************************************************)
RecordedLabel(qn, ql, aml) ==
    CASE <<qn, ql, aml>> = <<1, 0, 0>> -> "1 Bohr (0.5 A)"
      [] <<qn, ql, aml>> = <<2, 0, 0>> -> "2 Bohr (1.0 A)"
      [] <<qn, ql, aml>> = <<2, 1, 0>> -> "1 Bohr (0.5 A)"
      [] <<qn, ql, aml>> = <<2, 1, 1>> -> "5 Bohr (2.5 A)"
      [] <<qn, ql, aml>> = <<3, 0, 0>> -> "10 Bohr (5.0 A)"
      [] <<qn, ql, aml>> = <<3, 1, 0>> -> "7.5 Bohr (3.75 A)"
      [] <<qn, ql, aml>> = <<3, 1, 1>> -> "6.7 Bohr (3.3 A)"
      [] <<qn, ql, aml>> = <<3, 2, 0>> -> "10 Bohr (5 A)"
      [] <<qn, ql, aml>> = <<3, 2, 1>> -> "10 Bohr (5 A)"
      [] <<qn, ql, aml>> = <<3, 2, 2>> -> "10 Bohr (5 A)"

C8_OneRecordedLabel ==
    (<<n, l, ml>> \in SupportedTriples /\ Dispatched) =>
        /\ ~Printed(MsgNotAllowed)
        /\ ~Printed(MsgNotSupported)
        /\ ScaleLinesPrinted = 1
        /\ Printed(MsgScale(RecordedLabel(n, l, IF ml < 0 THEN -ml ELSE ml)))

C8_Witness ==
    /\ <<n, l, ml>> = <<3, 1, -1>>
    /\ pc = "exit_ok"
    /\ Printed(MsgScale("6.7 Bohr (3.3 A)"))

(***************************************************************************)
(* C9 as stated: for the input (1,0,0) the state is accepted, the label    *)
(* printed is "1 Bohr (0.5 Å)", with the angstrom sign, and 1331 spheres   *)
(* are generated.                                                          *)
(***************************************************************************)
C9_Original ==
    (<<n, l, ml>> = <<1, 0, 0>> /\ Sampled) =>
        /\ ~Printed(MsgNotAllowed) /\ ~Printed(MsgNotSupported)
        /\ Printed(MsgScale("1 Bohr (0.5 Å)"))
        /\ Len(allSpheres_VertexVec) = 1331

(***************************************************************************)
(* C9 amended: for the input (1,0,0) the state is accepted (no rejection   *)
(* message, the first branch is taken), the label printed is               *)
(* "1 Bohr (0.5 A)", with the ASCII letter A, and once the grid loops have *)
(* ended exactly 1331 spheres are generated.                               *)
(***************************************************************************)
C9_GroundStateEndToEnd ==
    (<<n, l, ml>> = <<1, 0, 0>> /\ ~BeforeValidation) =>
        /\ pc \notin {"exit_invalid", "exit_unsupported"}
        /\ ~Printed(MsgNotAllowed) /\ ~Printed(MsgNotSupported)
        /\ Dispatched =>
              /\ branch = 1
              /\ ScaleLinesPrinted = 1
              /\ Printed(MsgScale("1 Bohr (0.5 A)"))
        /\ Sampled => Len(allSpheres_VertexVec) = 1331

C9_Witness ==
    /\ <<n, l, ml>> = <<1, 0, 0>>
    /\ pc = "exit_ok"
    /\ Len(allSpheres_VertexVec) = 1331
    /\ Printed(MsgScale("1 Bohr (0.5 A)"))

(***************************************************************************)
(* C10.  For every accepted state the sampler visits exactly 11^3 = 1331   *)
(* grid cells, each once, with i, j, k in 0..10; step = 10/(res-1) = 1;    *)
(* the centre of cell (i, j, k) is (-5 + i, -5 + j, -5 + k); every         *)
(* coordinate lies in [-5, 5]; the faces -5 and +5 are sampled on each     *)
(* axis.  Centres are numerators over StepDen.                             *)
(***************************************************************************)
C10_GridCovered ==
    /\ StepNum = StepDen
    /\ numSpheres_per_side ^ 3 = 1331
    /\ \A q \in 1 .. Len(allSpheres_VertexVec) :
          /\ \A c \in 1 .. 3 :
                /\ allSpheres_VertexVec[q].cell[c] \in 0 .. 10
                /\ allSpheres_VertexVec[q].center[c] =
                      (allSpheres_VertexVec[q].cell[c] - 5) * StepDen
                /\ allSpheres_VertexVec[q].center[c] >= (-5) * StepDen
                /\ allSpheres_VertexVec[q].center[c] <= 5 * StepDen
          \* the cells come in the loops' order, none twice
          /\ q = allSpheres_VertexVec[q].cell[1] * 121
                    + allSpheres_VertexVec[q].cell[2] * 11
                    + allSpheres_VertexVec[q].cell[3] + 1
    /\ pc = "sample" => Len(allSpheres_VertexVec) = i * 121
    /\ Sampled =>
          /\ Len(allSpheres_VertexVec) = 1331
          /\ \A c \in 1 .. 3 : \A face \in {-5, 5} :
                \E q \in 1 .. Len(allSpheres_VertexVec) :
                    allSpheres_VertexVec[q].center[c] = face * StepDen

C10_Witness ==
    /\ pc = "declare_arr"
    /\ Len(allSpheres_VertexVec) = 1331
    /\ allSpheres_VertexVec[1].cell = <<0, 0, 0>>
    /\ allSpheres_VertexVec[1].center = <<(-5) * StepDen, (-5) * StepDen, (-5) * StepDen>>
    /\ allSpheres_VertexVec[1331].cell = <<10, 10, 10>>
    /\ allSpheres_VertexVec[1331].center = <<5 * StepDen, 5 * StepDen, 5 * StepDen>>

(***************************************************************************)
(* C11.  Every generated sphere has exactly (stackCount+1) x               *)
(* (sectorCount+1) = 100 vertices, the value of NUM_VERTICES_PER_SPHERE,   *)
(* which the aggregation loop uses as the offset between instances; this   *)
(* holds for every sphere of every supported state, and each sphere's      *)
(* vertex vector has 11 values for each of these vertices.                 *)
(***************************************************************************)
C11_VerticesPerSphere ==
    /\ (stackCount + 1) * (sectorCount + 1) = NUM_VERTICES_PER_SPHERE
    /\ NUM_VERTICES_PER_SPHERE = 100
    /\ \A q \in 1 .. Len(allSpheres_VertexVec) :
          /\ allSpheres_VertexVec[q].vertices = (stackCount + 1) * (sectorCount + 1)
          /\ allSpheres_VertexVec[q].vertices = NUM_VERTICES_PER_SPHERE
          /\ allSpheres_VertexVec[q].size = 11 * allSpheres_VertexVec[q].vertices
    /\ (Sampled /\ <<n, l, ml>> \in SupportedTriples) => Len(allSpheres_VertexVec) = numSpheres

C11_Witness ==
    /\ pc = "declare_arr"
    /\ <<n, l, ml>> = <<3, 2, 2>>
    /\ Len(allSpheres_VertexVec) = numSpheres
    /\ allSpheres_VertexVec[numSpheres].vertices = 100

(***************************************************************************)
(* C12.  Every vertex record of the aggregate vertex array is 11           *)
(* consecutive values: position (3), colour (3), texture coordinate (2),   *)
(* normal (3), the layout VAO4.LinkAttrib declares with stride 11.  The    *)
(* two texture slots (offsets 6, 7) hold the literal 0; position and normal *)
(* of a record are those of the same vertex of the tessellation.  Every    *)
(* sphere's values start at a multiple of 11 in the array and are 100      *)
(* whole records, so record k of the array is record k mod 100 of sphere   *)
(* k div 100.                                                              *)
(***************************************************************************)
\* value number c (0 .. 10) of record r (from 0) of a sphere's vector
RecordValue(r, c) == completeSphereVertexVec[(LinkAttribStride * r) + c + 1]

C12_RecordLayout ==
    /\ LinkAttribStride = 11
    /\ Len(InterleavePass(0)) = LinkAttribStride
    /\ completeSphereVertexVecSize = LinkAttribStride * NUM_VERTICES_PER_SPHERE
    \* the four attributes tile the record: 0-2, 3-5, 6-7, 8-10
    /\ <<LinkAttribs[1].offset, LinkAttribs[2].offset, LinkAttribs[3].offset,
         LinkAttribs[4].offset>> = <<0, 3, 6, 8>>
    /\ <<LinkAttribs[1].numComponents, LinkAttribs[2].numComponents,
         LinkAttribs[3].numComponents, LinkAttribs[4].numComponents>> = <<3, 3, 2, 3>>
    /\ \A r \in 0 .. (NUM_VERTICES_PER_SPHERE - 1) :
          /\ \A c \in 0 .. 2 :
                /\ RecordValue(r, LinkAttribs[1].offset + c) = ElementOf("sphereVertices", (3 * r) + c)
                /\ RecordValue(r, LinkAttribs[4].offset + c) = ElementOf("sphereNormals", (3 * r) + c)
          /\ RecordValue(r, LinkAttribs[2].offset) = Scalar("sphereColor_red")
          /\ RecordValue(r, LinkAttribs[2].offset + 1) = Scalar("sphereColor_green")
          /\ RecordValue(r, LinkAttribs[2].offset + 2) = Scalar("sphereColor_blue")
          /\ RecordValue(r, LinkAttribs[3].offset) = Literal(0)
          /\ RecordValue(r, LinkAttribs[3].offset + 1) = Literal(0)
    \* in the aggregate array no record straddles two spheres
    /\ \A q \in 1 .. Len(vertexWrites) :
          /\ vertexWrites[q][1] % LinkAttribStride = 0
          /\ vertexWrites[q][2] - vertexWrites[q][1]
                = LinkAttribStride * allSpheres_VertexVec[q].vertices
          /\ vertexWrites[q][1] = LinkAttribStride * NUM_VERTICES_PER_SPHERE * (q - 1)

C12_Witness ==
    /\ pc = "handoff"
    /\ Len(vertexWrites) = numSpheres
    /\ vertexWrites[numSpheres] = <<1463000, 1464100>>
    /\ RecordValue(99, 6) = Literal(0)
    /\ RecordValue(99, 0) = ElementOf("sphereVertices", 297)
    /\ RecordValue(99, 8) = ElementOf("sphereNormals", 297)

(***************************************************************************)
(* C13.  Instances are in grid traversal order, i outermost, j in the      *)
(* middle, k innermost: the sphere of cell (i, j, k) is instance number    *)
(* i*121 + j*11 + k, both in allSpheres_VertexVec and in the aggregate     *)
(* vertex array, where its 1100 values fill the slots instance*1100 ..     *)
(* instance*1100 + 1099.                                                   *)
(***************************************************************************)
InstanceOf(cell) == (cell[1] * 121) + (cell[2] * 11) + cell[3]

C13_GridTraversalOrder ==
    /\ \A q \in 1 .. Len(allSpheres_VertexVec) :
          InstanceOf(allSpheres_VertexVec[q].cell) = q - 1
    /\ Len(vertexWrites) <= Len(allSpheres_VertexVec)
    /\ \A q \in 1 .. Len(vertexWrites) :
          /\ vertexWrites[q][1] = InstanceOf(allSpheres_VertexVec[q].cell) * 1100
          /\ vertexWrites[q][2] - 1 = (InstanceOf(allSpheres_VertexVec[q].cell) * 1100) + 1099
    /\ Sampled =>
          \A ci \in 0 .. 10 : \A cj \in 0 .. 10 : \A ck \in 0 .. 10 :
              allSpheres_VertexVec[InstanceOf(<<ci, cj, ck>>) + 1].cell = <<ci, cj, ck>>
    /\ pc \in {"template", "aggregate", "handoff", "render", "exit_ok"} =>
          Len(vertexWrites) = Len(allSpheres_VertexVec)

C13_Witness ==
    /\ pc = "template"
    /\ allSpheres_VertexVec[413].cell = <<3, 4, 5>>
    /\ vertexWrites[413] = <<453200, 454300>>

(***************************************************************************)
(* C14.  Once the two aggregate arrays have been handed to VBO4 and EBO4,  *)
(* no step writes the sphere vector, the arrays, their cursors or the      *)
(* index template again, and main() stays in the render loop or at its     *)
(* exit: sampling, generation and aggregation are not run again.  main()   *)
(* never moves back to an earlier stage, so each stage runs once.          *)
(***************************************************************************)
StageOf(p) ==
    CASE p \in {"read_n", "read_l", "read_ml"} -> 0
      [] p = "validate" -> 1
      [] p \in {"glfw_init", "create_window", "declare_vec"} -> 2
      [] p = "dispatch" -> 3
      [] p = "sample" -> 4
      [] p \in {"declare_arr", "copy"} -> 5
      [] p = "template" -> 6
      [] p = "aggregate" -> 7
      [] p = "handoff" -> 8
      [] p = "render" -> 9
      [] OTHER -> 10

C14_BuiltOnce ==
    [][ /\ StageOf(pc') >= StageOf(pc)
        /\ uploaded # {} =>
              /\ pc' \in {"render", "exit_ok"}
              /\ UNCHANGED <<uploaded, declared, gridVars, copyVars, templateVars,
                             aggregateVars>> ]_vars

C14_Witness ==
    /\ pc = "exit_ok"
    /\ frames >= 1
    /\ uploaded = {"allSpheres_VertexArr", "allSpheres_IndicesArr"}
    /\ i_arr = vertexArrLen
    /\ indicesWrite.next = indicesArrLen

(***************************************************************************)
(* C15.  Once the three quantum numbers have been read from standard       *)
(* input, no step writes the globals n, l, ml: the check, the dispatch     *)
(* chain, generation, aggregation (whose n is a local) and the render loop *)
(* all see the values read.                                                *)
(***************************************************************************)
C15_QuantumNumbersFrozen ==
    [][ pc \notin {"read_n", "read_l", "read_ml"} => UNCHANGED <<n, l, ml>> ]_vars

C15_Witness ==
    /\ pc = "exit_ok"
    /\ frames >= 1
    /\ <<n, l, ml>> = <<2, 1, -1>>
    /\ branch = 4
    /\ indicesWrite.next = indicesArrLen

(***************************************************************************)
(* C16.  _100_eq at r = 0, theta = pi/2, phi = 0 returns (1/normConst)^2 * *)
(* (1/pi) with normConst = 1, that is 1/pi, the square of                  *)
(* exp(-r)/sqrt(pi)/normConst; the angles do not enter.  In a run for      *)
(* (1,0,0) this is the density of the sphere at the origin, cell (5,5,5).  *)
(* Values are exact, not rounded to float.                                 *)
(***************************************************************************)
ZeroRadius == Radius(<<0, 1>>, 0)
\* acos(0) = pi/2 and atan2(0, 1) = 0
HalfPi == <<"acos", 0, 1>>
ZeroAngle == <<"atan2", 0, 1>>
OneOverPi == Value(<<1, 1>>, -2, <<0, 1>>, 0)

C16_GroundStateAtOrigin ==
    /\ _100_eq(ZeroRadius, HalfPi, ZeroAngle) = OneOverPi
    /\ _100_eq(ZeroRadius, HalfPi, ZeroAngle)
          = ValueMul(ValueDiv(ExpMinus(ZeroRadius), SqrtPI), ValueDiv(ExpMinus(ZeroRadius), SqrtPI))
    /\ \A m \in 0 .. 3 : \A theta \in {HalfPi, ZeroAngle, <<"NaN", 0, 0>>} :
          _100_eq(Radius(<<1, 1>>, m), theta, ZeroAngle)
              = ValueMul(ValueDiv(ExpMinus(Radius(<<1, 1>>, m)), SqrtPI),
                         ValueDiv(ExpMinus(Radius(<<1, 1>>, m)), SqrtPI))
    /\ (branch = 1 /\ Len(allSpheres_VertexVec) > InstanceOf(<<5, 5, 5>>)) =>
          /\ allSpheres_VertexVec[InstanceOf(<<5, 5, 5>>) + 1].center = <<0, 0, 0>>
          /\ allSpheres_VertexVec[InstanceOf(<<5, 5, 5>>) + 1].probDensity = OneOverPi

C16_Witness ==
    /\ <<n, l, ml>> = <<1, 0, 0>>
    /\ pc = "declare_arr"
    /\ allSpheres_VertexVec[InstanceOf(<<5, 5, 5>>) + 1].probDensity
          = [coef |-> <<1, 1>>, sqrtPi |-> -2, expc |-> <<0, 1>>, expm |-> 0]
    /\ allSpheres_VertexVec[1].probDensity
          = [coef |-> <<1, 1>>, sqrtPi |-> -2, expc |-> <<-1, 25>>, expm |-> 7500]

(***************************************************************************)
(* C17.  The aggregate index array is the local index list repeated once   *)
(* per instance with the instance's offset: slot q holds                   *)
(* singleSphere_IndicesVec[q mod L] + 100 * (q div L), L the length of the *)
(* local list.  The array has 1331 * L slots; the slots a step of the loop *)
(* stores are those of whole spheres, and the least and the greatest value *)
(* stored in them are the least local index plus 100 times the first       *)
(* sphere and the greatest local index plus 100 times the last sphere.     *)
(***************************************************************************)
C17_TemplateRepeatedWithOffset ==
    LET L == Len(singleSphere_IndicesVec)
        firstSphere == indicesWrite.first \div L
        lastSphere == (indicesWrite.next - 1) \div L
    IN /\ pc \in {"aggregate", "handoff", "render", "exit_ok"} =>
             indicesArrLen = numSpheres * L
       /\ indicesWrite.next > indicesWrite.first =>
             /\ indicesWrite.first % L = 0
             /\ indicesWrite.next % L = 0
             /\ \E q \in 1 .. L :
                   singleSphere_IndicesVec[q] + (100 * firstSphere) = indicesWrite.least
             /\ \A q \in 1 .. L :
                   singleSphere_IndicesVec[q] + (100 * firstSphere) >= indicesWrite.least
             /\ \E q \in 1 .. L :
                   singleSphere_IndicesVec[q] + (100 * lastSphere) = indicesWrite.greatest
             /\ \A q \in 1 .. L :
                   singleSphere_IndicesVec[q] + (100 * lastSphere) <= indicesWrite.greatest
             \* the value of a slot, at the two ends of the step and past a boundary
             /\ \A q \in {indicesWrite.first, indicesWrite.first + L - 1,
                          indicesWrite.first + L, indicesWrite.next - 1} :
                   q < indicesWrite.next =>
                       IndexValue(q) = singleSphere_IndicesVec[(q % L) + 1]
                                          + (NUM_VERTICES_PER_SPHERE * (q \div L))

C17_Witness ==
    /\ pc = "handoff"
    /\ indicesWrite.next = 574992
    /\ indicesWrite.least = 1 + (100 * (indicesWrite.first \div 432))
    /\ indicesWrite.greatest = 98 + (100 * 1330)
    /\ indicesWrite.first > 0

\* the triangles a sector of stack s contributes, and those the sectors of
\* the stacks before s contribute each
TrianglesOf(s) ==
    (IF s # 0 THEN 1 ELSE 0) + (IF s # (stackCount - 1) THEN 1 ELSE 0)

EmittedBefore(s) ==
    IF s = 0 THEN 0
    ELSE IF s < stackCount THEN (2 * s) - 1
    ELSE (2 * stackCount) - 2

StacksDone ==
    IF pc = "template" THEN i
    ELSE IF pc \in {"aggregate", "handoff", "render", "exit_ok"} THEN stackCount
    ELSE 0

(***************************************************************************)
(* C18.  The local triangle-index list is built stack by stack (i from 0   *)
(* to stackCount - 1) and sector by sector (j from 0 to sectorCount - 1)   *)
(* with k1 = i * (sectorCount + 1) + j and k2 = k1 + sectorCount + 1: a    *)
(* sector appends (k1, k2, k1 + 1) exactly when i is not the first stack,  *)
(* then (k1 + 1, k2, k2 + 1) exactly when i is not the last stack, and     *)
(* nothing else is appended.                                               *)
(***************************************************************************)
C18_TemplateBuiltBySectors ==
    LET vec == singleSphere_IndicesVec
    IN /\ Len(vec) = 3 * sectorCount * EmittedBefore(StacksDone)
       /\ \A s \in 0 .. (StacksDone - 1) : \A j \in 0 .. (sectorCount - 1) :
             LET a == (s * (sectorCount + 1)) + j
                 b == a + sectorCount + 1
                 at == (3 * sectorCount * EmittedBefore(s)) + (j * 3 * TrianglesOf(s))
                 mid == at + (IF s # 0 THEN 3 ELSE 0)
             IN /\ s # 0 => SubSeq(vec, at + 1, at + 3) = <<a, b, a + 1>>
                /\ s # (stackCount - 1) =>
                      SubSeq(vec, mid + 1, mid + 3) = <<a + 1, b, b + 1>>
       /\ StacksDone > 0 =>
             /\ k1 = ((StacksDone - 1) * (sectorCount + 1)) + sectorCount
             /\ k2 = k1 + sectorCount + 1

C18_Witness ==
    /\ pc = "aggregate"
    /\ Len(singleSphere_IndicesVec) = 432
    /\ SubSeq(singleSphere_IndicesVec, 1, 6) = <<1, 10, 11, 2, 11, 12>>
    /\ SubSeq(singleSphere_IndicesVec, 28, 33) = <<10, 20, 11, 11, 20, 21>>
    /\ SubSeq(singleSphere_IndicesVec, 430, 432) = <<88, 98, 89>>

\* the density the mapper is said to use for a sphere: the raw density, and
\* the raw density over 0.31 in the branch of (1, 0, 0)
NormalisedDensity(sphere) ==
    LET raw == DensityForm(branch, sphere.center[1], sphere.center[2], sphere.center[3])
    IN IF branch = 1 THEN LinOver(raw, <<31, 100>>) ELSE raw

(***************************************************************************)
(* C19.  For every sample the radius is (step / 1.5) * d, red is 1 - d,    *)
(* green is d and blue is 0.2, d being the raw density in the nine         *)
(* branches other than that of (1, 0, 0) and the density over 0.31 in      *)
(* that one, unclamped; hence red + green = 1 for every instance, and the  *)
(* 100 records of an instance carry the same colour.  The sample at the    *)
(* origin of a branch whose evaluator uses theta has a NaN density, and    *)
(* the red and the green of its instance do not add up to 1.               *)
(***************************************************************************)
C19_MapperFormulas ==
    \A q \in 1 .. Len(allSpheres_VertexVec) :
        LET sphere == allSpheres_VertexVec[q]
            d == NormalisedDensity(sphere)
        IN /\ sphere.sphereRadius = LinScale(RatDiv(step, <<3, 2>>), d)
           /\ sphere.sphereColor_red = LinSub(LinOfRat(<<1, 1>>), d)
           /\ sphere.sphereColor_green = d
           /\ sphere.sphereColor_blue = LinOfRat(<<1, 5>>)
           /\ LinAdd(sphere.sphereColor_red, sphere.sphereColor_green) = LinOfRat(<<1, 1>>)
           /\ \A r \in {0, NUM_VERTICES_PER_SPHERE - 1} :
                 /\ RecordValue(r, 3) = Scalar("sphereColor_red")
                 /\ RecordValue(r, 4) = Scalar("sphereColor_green")
                 /\ RecordValue(r, 5) = Scalar("sphereColor_blue")

(***************************************************************************)
(* C20.  The dispatch depends on (n, l, |ml|) only: for a supported triple *)
(* with ml # 0 the run for (n, l, ml) prints the label and builds the      *)
(* vertex and index arrays that the run for (n, l, -ml) prints and builds. *)
(* A run is determined by its input, and what it prints and builds past    *)
(* the dispatch is determined by the branch taken; so the run for          *)
(* (n, l, ml) has taken the branch of (n, l, -ml), its one scale line      *)
(* carries that branch's label and each of its spheres is the sphere that  *)
(* branch computes for the cell.                                           *)
(***************************************************************************)
C20_MirroredMlSameRun ==
    (Dispatched /\ <<n, l, ml>> \in SupportedTriples /\ ml # 0) =>
        LET mirror == BranchTaken(n, l, -ml)
        IN /\ <<n, l, -ml>> \in SupportedTriples
           /\ branch = mirror
           /\ ScaleLinesPrinted = 1
           /\ output[Len(output)] = MsgScale(AxisLabel(mirror))
           /\ \A q \in 1 .. Len(allSpheres_VertexVec) :
                 LET sphere == allSpheres_VertexVec[q]
                     x == sphere.center[1]
                     y == sphere.center[2]
                     z == sphere.center[3]
                 IN /\ sphere.probDensity = ProbDensityAt(mirror, x, y, z)
                    /\ sphere.sphereRadius = sphereRadius(mirror, DensityForm(mirror, x, y, z))
                    /\ sphere.sphereColor_red =
                          sphereColor_red(mirror, DensityForm(mirror, x, y, z))
                    /\ sphere.sphereColor_green =
                          sphereColor_green(mirror, DensityForm(mirror, x, y, z))

C20_Witness ==
    /\ <<n, l, ml>> = <<3, 2, -2>>
    /\ pc = "handoff"
    /\ branch = 10
    /\ Len(allSpheres_VertexVec) = numSpheres
    /\ allSpheres_VertexVec[1].probDensity[1] = "_322_eq"

\* the positions of main() in the order of the text, from the validity check
\* to the render loop
PipelineOrder ==
    <<"validate", "glfw_init", "create_window", "declare_vec", "dispatch", "sample",
      "declare_arr", "copy", "template", "aggregate", "handoff", "render">>

PositionOf(p) == CHOOSE q \in 1 .. Len(PipelineOrder) : PipelineOrder[q] = p

\* how the run has ended, "none" while it has not
Outcome ==
    CASE pc = "exit_invalid" -> "rejected-invalid"
      [] pc = "exit_unsupported" -> "rejected-unsupported"
      [] pc = "exit_window" -> "window-failed"
      [] pc \in {"render", "exit_ok"} -> "handed-off"
      [] OTHER -> "none"

\* a step from the validity check on that changes the position moves to the
\* next position of the text or to an exit, and an outcome is final
PipelineLinear ==
    [][ /\ (pc # pc' /\ pc \in {PipelineOrder[q] : q \in 1 .. (Len(PipelineOrder) - 1)}) =>
              \/ pc' = PipelineOrder[PositionOf(pc) + 1]
              \/ pc' \in {"exit_invalid", "exit_window", "exit_unsupported"}
        /\ pc' = "exit_invalid" => pc = "validate"
        /\ pc' = "exit_unsupported" => pc = "dispatch"
        /\ Outcome # "none" => Outcome' = Outcome
        /\ pc \in PipelinePositions => PipelineStep /\ <<pc, i>>' # <<pc, i>>
        /\ Outcome' = "handed-off" => uploaded' # {} ]_vars

(***************************************************************************)
(* C21 as stated: the pipeline is one linear pass that always terminates,  *)
(* and for every input triple it ends in exactly one of rejected-invalid,  *)
(* rejected-unsupported or buffers handed off.                             *)
(***************************************************************************)
C21_Original ==
    /\ PipelineLinear
    /\ (pc = "validate") ~>
           (Outcome \in {"rejected-invalid", "rejected-unsupported", "handed-off"})

(***************************************************************************)
(* C21.  The pipeline is one linear pass that always terminates: from the  *)
(* validity check main() moves through the window setup, the dispatch, the *)
(* sampling, the copy, the template and the aggregate to the hand-off, no  *)
(* position entered again after it was left, and the run ends in exactly   *)
(* one of four ways: rejected as invalid, rejected as unsupported, buffers *)
(* handed off, or (lines 361 .. 366) the window could not be created.      *)
(***************************************************************************)
C21_LinearPassTerminates ==
    /\ PipelineLinear
    /\ (pc = "validate") ~> (Outcome # "none")

C21_Witness ==
    /\ Outcome = "handed-off"
    /\ uploaded = {"allSpheres_VertexArr", "allSpheres_IndicesArr"}
    /\ indicesWrite.next = indicesArrLen
    /\ Len(allSpheres_VertexVec) = numSpheres

(***************************************************************************)
(* C22.  The supported set is the set of physically valid triples with     *)
(* n <= 3: a triple with 1 <= n <= 3 that passes the validity check takes  *)
(* a generation branch, and a triple reaches the "not yet supported" exit  *)
(* if and only if it passes the validity check and has n >= 4.  The triple *)
(* (1, 0, INT_MIN) can pass the check of line 338, whose abs(ml) is        *)
(* undefined, and then takes no branch.                                    *)
(***************************************************************************)
C22_UnsupportedIffNAtLeastFour ==
    Dispatched =>
        /\ (1 <= n /\ n <= 3) => (branch \in Branches /\ pc # "exit_unsupported")
        /\ pc = "exit_unsupported" <=> n >= 4

\* the number of rejection messages printed
RejectionsPrinted ==
    Cardinality({q \in 1 .. Len(output) : output[q] \in {MsgNotAllowed, MsgNotSupported}})

(***************************************************************************)
(* C23.  The validity check comes before the dispatch chain, so a run      *)
(* prints at most one rejection message, and "not yet supported" is        *)
(* printed only for a triple with l >= 0, l + 1 <= n and |ml| <= |l|.  The *)
(* triple (1, 0, INT_MIN), with |ml| > |l|, can pass the check of line 338 *)
(* and is then told "not yet supported".                                   *)
(***************************************************************************)
C23_NotSupportedOnlyIfValid ==
    /\ RejectionsPrinted <= 1
    /\ Printed(MsgNotSupported) =>
          /\ pc = "exit_unsupported"
          /\ l >= 0
          /\ l < n
          /\ ~Greater(MathAbs(ml), MathAbs(l))

(***************************************************************************)
(* C24.  Validation gates all further execution: on both rejection paths,  *)
(* invalid and unsupported, the process exits before GLFW is initialised   *)
(* and before any window is created.  The final else of the dispatch       *)
(* chain (line 1559) comes after glfwInit (line 346) and glfwCreateWindow  *)
(* (line 358): the unsupported exit is taken with GLFW initialised and the *)
(* window open.                                                            *)
(***************************************************************************)
C24_RejectionsBeforeWindow ==
    pc \in {"exit_invalid", "exit_unsupported"} =>
        /\ glfw = "off"
        /\ window = "none"

\* the spheres pushed so far whose sample has a NaN theta
SpheresWithNaNTheta ==
    {q \in 1 .. Len(allSpheres_VertexVec) :
        theta_of(allSpheres_VertexVec[q].center[1], allSpheres_VertexVec[q].center[2],
                 allSpheres_VertexVec[q].center[3]) = <<"NaN", 0, 0>>}

(***************************************************************************)
(* C25.  Of the 11 * 11 * 11 cells exactly one, i = j = k = 5, has its     *)
(* centre at the origin: there r is 0 and theta_of computes acos(z / 0);   *)
(* in each of the other 1330 cells r > 0.  So an accepted run computes     *)
(* theta from z / 0 exactly once.                                          *)
(***************************************************************************)
C25_OneSampleAtOrigin ==
    /\ \A q \in 1 .. Len(allSpheres_VertexVec) :
          LET sphere == allSpheres_VertexVec[q]
              r == r_of(sphere.center[1], sphere.center[2], sphere.center[3])
              theta == theta_of(sphere.center[1], sphere.center[2], sphere.center[3])
          IN /\ sphere.cell = <<5, 5, 5>> <=> sphere.center = <<0, 0, 0>>
             /\ sphere.cell = <<5, 5, 5>> <=> r = [c |-> <<0, 1>>, m |-> 0]
             /\ sphere.cell # <<5, 5, 5>> => (r.c[1] > 0 /\ r.m > 0)
             /\ sphere.cell = <<5, 5, 5>> <=> theta = <<"NaN", 0, 0>>
             /\ branch # 1 => (sphere.probDensity[2] = r /\ sphere.probDensity[4] = theta)
    /\ Cardinality(SpheresWithNaNTheta) <= 1
    /\ Sampled => /\ Len(allSpheres_VertexVec) = numSpheres
                  /\ SpheresWithNaNTheta = {(5 * 121) + (5 * 11) + 5 + 1}

C25_Witness ==
    /\ pc = "declare_arr"
    /\ branch = 3
    /\ allSpheres_VertexVec[666].cell = <<5, 5, 5>>
    /\ allSpheres_VertexVec[666].probDensity[4] = <<"NaN", 0, 0>>
    /\ allSpheres_VertexVec[665].probDensity[4] = <<"acos", -10, 100>>

(***************************************************************************)
(* C26.  For every supported state and every cell other than the origin    *)
(* the sphere radius is not 0, so lengthInv = 1 / sphereRadius is finite   *)
(* and the normals are unit vectors; no cell lies on a radial node of the  *)
(* state's formula (scaled r = 2 for (2, 0, 0), scaled r = 6 for the       *)
(* states with n = 3, l = 1).  For (2, 0, 0) the thirty cells at distance  *)
(* 5 from the origin have the scaled r 2, density 0 and radius 0.          *)
(***************************************************************************)
C26_RadiusNonZero ==
    \A q \in 1 .. Len(allSpheres_VertexVec) :
        LET sphere == allSpheres_VertexVec[q]
            scaled == RadiusOver(r_of(sphere.center[1], sphere.center[2], sphere.center[3]),
                                 RadialDivisorValue(branch))
        IN sphere.cell # <<5, 5, 5>> =>
              /\ sphere.lengthInv = "finite"
              /\ RadialNode(branch) # 0 => ~RadiusEquals(scaled, RadialNode(branch))

\* the extent in Bohr a label states
LabelExtent(label) ==
    CASE label = "1 Bohr (0.5 A)" -> <<1, 1>>
      [] label = "2 Bohr (1.0 A)" -> <<2, 1>>
      [] label = "5 Bohr (2.5 A)" -> <<5, 1>>
      [] label = "10 Bohr (5.0 A)" -> <<10, 1>>
      [] label = "7.5 Bohr (3.75 A)" -> <<15, 2>>
      [] label = "6.7 Bohr (3.3 A)" -> <<67, 10>>
      [] label = "10 Bohr (5 A)" -> <<10, 1>>

(***************************************************************************)
(* C27.  For every supported state the axis extent printed, in Bohr, times *)
(* the divisor applied to r before the evaluation is 5, the half extent of *)
(* the cube.  For (2, 1, 0) the label is "1 Bohr" and r is passed as it    *)
(* is: the product is 1.                                                   *)
(***************************************************************************)
C27_LabelMatchesDivisor ==
    (Dispatched /\ branch \in Branches) =>
        /\ output[Len(output)] = MsgScale(AxisLabel(branch))
        /\ RatMul(LabelExtent(output[Len(output)][2]), RadialDivisorValue(branch))
              = <<HalfExtent, 1>>

\* the slots of instance m in allSpheres_IndicesArr
BlockOf(m) ==
    (m * Len(singleSphere_IndicesVec)) .. (((m + 1) * Len(singleSphere_IndicesVec)) - 1)

(***************************************************************************)
(* C28.  The triangles of an instance reference the vertices of that       *)
(* instance only: every index in the block of instance m (0 <= m < 1331)   *)
(* of the aggregate index array lies in 100 * m .. 100 * m + 99, every     *)
(* local index of the template lying in 0 .. 99.  Stated for the first     *)
(* and the last instance of each step of the aggregation loop, and through *)
(* the least and greatest value of the step for those between.             *)
(***************************************************************************)
C28_IndicesWithinOwnInstance ==
    LET L == Len(singleSphere_IndicesVec)
        firstSphere == indicesWrite.first \div L
        lastSphere == (indicesWrite.next - 1) \div L
    IN /\ \A q \in 1 .. L :
             singleSphere_IndicesVec[q] \in 0 .. (NUM_VERTICES_PER_SPHERE - 1)
       /\ indicesWrite.next > indicesWrite.first =>
             /\ lastSphere < numSpheres
             /\ \A m \in {firstSphere, lastSphere} : \A q \in BlockOf(m) :
                   /\ q \in indicesWrite.first .. (indicesWrite.next - 1)
                   /\ IndexValue(q) \in (100 * m) .. ((100 * m) + 99)
             /\ indicesWrite.least >= 100 * firstSphere
             /\ indicesWrite.least <= (100 * firstSphere) + 99
             /\ indicesWrite.greatest >= 100 * lastSphere
             /\ indicesWrite.greatest <= (100 * lastSphere) + 99

C28_Witness ==
    /\ pc = "handoff"
    /\ indicesWrite.next = indicesArrLen
    /\ (indicesWrite.next - 1) \div Len(singleSphere_IndicesVec) = 1330
    /\ IndexValue(indicesArrLen - 1) = 133089
    /\ IndexValue(indicesWrite.first) = (100 * (indicesWrite.first \div 432)) + 1

(***************************************************************************)
(* C29.  A run that has initialised GLFW and created the window destroys   *)
(* the window and calls glfwTerminate before the process exits, on every   *)
(* exit path: the window closed, the window not created, the triple not    *)
(* supported.  The final else of the dispatch chain (lines 1559 .. 1562)   *)
(* returns with the window open and GLFW not terminated.                   *)
(***************************************************************************)
C29_CleanupOnEveryExit ==
    pc \in {"exit_ok", "exit_window", "exit_unsupported"} =>
        /\ glfw = "terminated"
        /\ window \in {"destroyed", "null"}

\* the accesses sphereVertices.at(k) and sphereNormals.at(k) of one pass
AtAccesses(j_a) ==
    {InterleavePass(j_a)[e] : e \in 1 .. Len(InterleavePass(j_a))}
        \cap ({"sphereVertices", "sphereNormals"} \X (0 .. (length_completeSphereVertexVec * 3)))

(***************************************************************************)
(* C30.  The interleave loop of a sphere runs exactly 100 passes and       *)
(* appends 11 values in each, 1100 = sphereVertices.size() * 11 / 3 in     *)
(* all; every sphereVertices.at(k) and sphereNormals.at(k) has k in        *)
(* 0 .. 299, so no std::out_of_range is thrown, and the loop ends.         *)
(***************************************************************************)
C30_InterleaveLoopInRange ==
    /\ InterleavePasses = 100
    /\ InterleavePasses * Len(InterleavePass(0)) = length_completeSphereVertexVec
    /\ length_completeSphereVertexVec = 1100
    /\ completeSphereVertexVecSize = (sphereVerticesSize * 11) \div 3
    \* the passes of the loop, while the grid loops run it
    /\ pc = "sample" =>
          \A p \in 0 .. (InterleavePasses - 1) :
             /\ Len(InterleavePass(3 * p)) = 11
             /\ Cardinality(AtAccesses(3 * p)) = 6
             /\ \A a \in AtAccesses(3 * p) :
                   /\ a[2] >= 0
                   /\ a[1] = "sphereVertices" => a[2] < sphereVerticesSize
                   /\ a[1] = "sphereNormals" => a[2] < sphereNormalsSize
                   /\ a[2] <= 299
    /\ \A q \in 1 .. Len(allSpheres_VertexVec) :
          allSpheres_VertexVec[q].size = 1100

C30_Witness ==
    /\ pc = "sample"
    /\ i = 1
    /\ allSpheres_VertexVec[121].size = 1100
    /\ completeSphereVertexVec[1090] = ElementOf("sphereVertices", 297)
    /\ completeSphereVertexVec[1100] = ElementOf("sphereNormals", 299)

=============================================================================
